---- MODULE Spec2Model ----
(***************************************************************************)
(* GENEActiv reader of scikit-digital-health:                               *)
(*   src/src/skimu/read/_extensions/read_geneactiv.c                        *)
(* geneactiv_read_header, geneactiv_read_block and get_timestamps, run by   *)
(* a file reader that calls the header decoder once and then the block      *)
(* decoder until the declared page count is exhausted or a call is fatal.   *)
(*                                                                          *)
(* Text is modelled as tuples of one-character strings, a file as a         *)
(* sequence of lines with a cursor.  A C double is modelled by the exact    *)
(* rational it stands for, a pair <<numerator, denominator>> in lowest      *)
(* terms; a timestamp is whole seconds plus such a fraction.                *)
(***************************************************************************)
EXTENDS Integers, Sequences, FiniteSets, TLC

VARIABLES fp, info, data, pc, rc, hist

vars == <<fp, info, data, pc, rc, hist>>

(***************************************************************************)
(* Bounds of the model.                                                     *)
(***************************************************************************)
\* pages declared by the header of a generated file; its blocks carry
\* distinct sequence numbers below it
NPages == 3

(***************************************************************************)
(* Program constants.                                                       *)
(***************************************************************************)
GN_SAMPLES == 300
BUFF_LEN == 255
TIME_LEN == 40
DATA_STR_LEN == 3610
DATA_MIN_STRLEN == 3601
DATA_CHARS == 3600
GROUP_CHARS == 12

GN_READ_E_NONE == "GN_READ_E_NONE"
GN_READ_E_BLOCK_TIMESTAMP == "GN_READ_E_BLOCK_TIMESTAMP"
GN_READ_E_BLOCK_FS == "GN_READ_E_BLOCK_FS"
GN_READ_E_BLOCK_DATA == "GN_READ_E_BLOCK_DATA"
GN_READ_E_BLOCK_DATA_3600 == "GN_READ_E_BLOCK_DATA_3600"
GN_READ_E_BLOCK_FS_WARN == "GN_READ_E_BLOCK_FS_WARN"

FatalCodes ==
    {GN_READ_E_BLOCK_TIMESTAMP, GN_READ_E_BLOCK_FS,
     GN_READ_E_BLOCK_DATA, GN_READ_E_BLOCK_DATA_3600}

(***************************************************************************)
(* Rationals.                                                               *)
(***************************************************************************)
Abs(n) == IF n < 0 THEN -n ELSE n

RECURSIVE GCD(_, _)
GCD(a, b) == IF b = 0 THEN a ELSE GCD(b, a % b)

\* n/d in lowest terms with a positive denominator; a zero denominator
\* (division by 0.0) keeps only the sign of the numerator
Rat(n, d) ==
    IF d = 0 THEN <<(IF n > 0 THEN 1 ELSE IF n < 0 THEN -1 ELSE 0), 0>>
    ELSE LET g == GCD(Abs(n), Abs(d))
             s == IF d < 0 THEN -1 ELSE 1
         IN  <<(s * n) \div g, (s * d) \div g>>

(***************************************************************************)
(* C library text conversions, as the code calls them.                      *)
(***************************************************************************)
HexDigits == <<"0", "1", "2", "3", "4", "5", "6", "7", "8", "9",
               "a", "b", "c", "d", "e", "f">>
HexUpper == <<"0", "1", "2", "3", "4", "5", "6", "7", "8", "9",
              "A", "B", "C", "D", "E", "F">>

\* the characters that are digits of some base up to 16, with their values
DigitMap ==
    [c \in {HexDigits[i] : i \in 1..16} \cup {HexUpper[i] : i \in 1..16} |->
        IF \E i \in 1..16 : HexDigits[i] = c
        THEN (CHOOSE i \in 1..16 : HexDigits[i] = c) - 1
        ELSE (CHOOSE i \in 1..16 : HexUpper[i] = c) - 1]

\* the value of character c as a digit of the base, or -1
DigitVal(c, base) ==
    IF c \in DOMAIN DigitMap /\ DigitMap[c] < base THEN DigitMap[c] ELSE -1

IsSpace(c) == c \in {" ", "\t", "\n", "\r"}

RECURSIVE SkipSpace(_)
SkipSpace(s) ==
    IF s # <<>> /\ IsSpace(Head(s)) THEN SkipSpace(Tail(s)) ELSE s

RECURSIVE DigitRun(_, _, _)
\* the value of the longest prefix of s made of digits of the base,
\* continuing the value acc
DigitRun(s, base, acc) ==
    IF s = <<>> \/ DigitVal(Head(s), base) < 0 THEN acc
    ELSE DigitRun(Tail(s), base, acc * base + DigitVal(Head(s), base))

RECURSIVE DigitCount(_, _)
DigitCount(s, base) ==
    IF s = <<>> \/ DigitVal(Head(s), base) < 0 THEN 0
    ELSE 1 + DigitCount(Tail(s), base)

\* strtol(s, NULL, base): leading white space, an optional sign, then the
\* longest run of digits; 0 when there is none.  No error is reported.
\* (The generated text holds no "0x" prefix, which base 16 would skip.)
Strtol(s, base) ==
    LET t == SkipSpace(s)
        neg == t # <<>> /\ Head(t) = "-"
        u == IF t # <<>> /\ Head(t) \in {"-", "+"} THEN Tail(t) ELSE t
        v == DigitRun(u, base, 0)
    IN  IF neg THEN -v ELSE v

RECURSIVE Pow10(_)
Pow10(n) == IF n = 0 THEN 1 ELSE 10 * Pow10(n - 1)

\* the decimal number digits [. digits] at the start of u, whose integer
\* part has ni digits; 0 when there is no digit
DecimalFrac(u, frac) ==
    Rat(DigitRun(frac, 10, DigitRun(u, 10, 0)), Pow10(DigitCount(frac, 10)))
DecimalAt(u, ni) ==
    DecimalFrac(u, IF ni < Len(u) /\ u[ni + 1] = "."
                   THEN SubSeq(u, ni + 2, Len(u)) ELSE <<>>)
Decimal(u) == DecimalAt(u, DigitCount(u, 10))

Neg(r) == <<-r[1], r[2]>>

\* strtod(s, NULL) on decimal text: leading white space, an optional sign,
\* digits, an optional fraction; 0.0 when there is no number.  (The
\* generated text holds no exponent, "inf" or "nan".)
Strtod(s) ==
    LET t == SkipSpace(s)
    IN  IF t # <<>> /\ Head(t) = "-" THEN Neg(Decimal(Tail(t)))
        ELSE IF t # <<>> /\ Head(t) = "+" THEN Decimal(Tail(t))
        ELSE Decimal(t)

(***************************************************************************)
(* A C character array: the bytes written so far.  NUL ends a string;       *)
(* bytes past the tuple's length were never written (uninitialized).        *)
(***************************************************************************)
NUL == "NUL"

RECURSIVE UpToNul(_)
UpToNul(s) ==
    IF s = <<>> \/ Head(s) = NUL THEN <<>> ELSE <<Head(s)>> \o UpToNul(Tail(s))

\* &arr[c] read as a string: ok is FALSE when the read starts in, or runs
\* into, bytes that were never written
CStrAt(arr, c) ==
    LET rest == SubSeq(arr, c + 1, Len(arr))
        str == UpToNul(rest)
    IN  [ok |-> c < Len(arr) /\ Len(str) < Len(rest), s |-> str]

\* the array after a string (and its terminator) is stored at its start
Store(arr, str) == str \o <<NUL>> \o SubSeq(arr, Len(str) + 2, Len(arr))

\* A C array of numbers is the tuple of its slots: slot i of the array, arr[i]
\* in the code, is element i + 1 of the tuple.
At(arr, i) == arr[i + 1]

\* the array after a loop has stored vals in its slots lo, lo + 1, ...
WriteAt(arr, lo, vals) ==
    SubSeq(arr, 1, lo) \o vals \o SubSeq(arr, lo + Len(vals) + 1, Len(arr))

(***************************************************************************)
(* The stream.  fp.lines are the lines of the file, fp.pos the line the     *)
(* cursor is in (1-based; past the last line at end of file) and fp.off     *)
(* the characters of that line already consumed.  A line is text, or names  *)
(* the 3600-character sample data it holds.                                 *)
(***************************************************************************)
TextLine(s) == [s |-> s, d |-> ""]
DataLine(kind) == [s |-> <<>>, d |-> kind]

\* sample groups: x, y, z acceleration and light, three hex digits each
GroupA == <<"7", "f", "f", "8", "0", "0", "0", "0", "0", "f", "f", "f">>
GroupB == <<"8", "0", "1", "7", "F", "E", "F", "F", "F", "0", "0", "3">>
GroupZ == <<"0", "0", "0", "0", "0", "0", "0", "0", "0", "0", "0", "0">>

\* n characters of the groups g1 g2 g1 g2 ..., then a line end
Samples(g1, g2, n) ==
    SubSeq([i \in 1..(n + 1) |->
               IF i = n + 1 THEN "\n"
               ELSE LET k == (i - 1) % (2 * GROUP_CHARS)
                    IN  IF k < GROUP_CHARS THEN g1[k + 1]
                        ELSE g2[k - GROUP_CHARS + 1]], 1, n + 1)

DataBnd == Samples(GroupA, GroupB, DATA_CHARS)
DataZero == Samples(GroupZ, GroupZ, DATA_CHARS)
DataShort == Samples(GroupB, GroupA, DATA_CHARS - 1)

DataText(kind) ==
    CASE kind = "bnd" -> DataBnd
      [] kind = "zero" -> DataZero
      [] OTHER -> DataShort

Text(line) == IF line.d = "" THEN line.s ELSE DataText(line.d)

\* fgets(dst, n, fp): at most n - 1 characters of the current line, through
\* its line end, stored in dst; NULL (ok FALSE, nothing stored) at end of
\* file.  s is the string stored.
Fgets(dst, n, f) ==
    IF f.pos > Len(f.lines) THEN [ok |-> FALSE, s |-> <<>>, dst |-> dst, f |-> f]
    ELSE LET Got(rest) ==
                 IF Len(rest) <= n - 1
                 THEN [ok |-> TRUE, s |-> rest, dst |-> Store(dst, rest),
                       f |-> [f EXCEPT !.pos = f.pos + 1, !.off = 0]]
                 ELSE [ok |-> TRUE, s |-> SubSeq(rest, 1, n - 1),
                       dst |-> Store(dst, SubSeq(rest, 1, n - 1)),
                       f |-> [f EXCEPT !.off = f.off + n - 1]]
             Line(txt) == Got(SubSeq(txt, f.off + 1, Len(txt)))
         IN  Line(Text(f.lines[f.pos]))

\* GN_READLINE: fgets(buff, 255, fp), its result not looked at
GN_READLINE(st) ==
    LET r == Fgets(st.buff, BUFF_LEN, st.f)
    IN  [f |-> r.f, buff |-> r.dst]

RECURSIVE Readlines(_, _)
\* k GN_READLINE in a row
Readlines(st, k) ==
    IF k = 0 THEN st
    ELSE LET n == GN_READLINE(st)
         IN  IF n.f.pos >= 1 THEN Readlines(n, k - 1) ELSE n

\* strtol / strtod of &arr[c]; junk stands for the value an uninitialized
\* read yields
StrtolAt(arr, c, base, junk) ==
    IF CStrAt(arr, c).ok THEN Strtol(CStrAt(arr, c).s, base) ELSE junk
StrtodAt(arr, c, junk) ==
    IF CStrAt(arr, c).ok THEN Strtod(CStrAt(arr, c).s) ELSE <<junk, 1>>

(***************************************************************************)
(* get_timestamps                                                           *)
(***************************************************************************)
\* the fixed columns of the clock-stamp line "Page Time:YYYY-MM-DD hh:mm:ss:mmm"
GN_DATE_YEAR(time, junk) == StrtolAt(time, 10, 10, junk)
GN_DATE_MONTH(time, junk) == StrtolAt(time, 15, 10, junk)
GN_DATE_DAY(time, junk) == StrtolAt(time, 18, 10, junk)
GN_DATE_HOUR(time, junk) == StrtolAt(time, 21, 10, junk)
GN_DATE_MIN(time, junk) == StrtolAt(time, 24, 10, junk)
GN_DATE_SEC(time, junk) == StrtolAt(time, 27, 10, junk)
GN_DATE_MSEC(time, junk) == StrtolAt(time, 30, 10, junk)

\* timegm: seconds since 1970-01-01 00:00:00 UTC of a broken-down time
\* (proleptic Gregorian calendar, fields in range, years from 1600 on)
Timegm(tm) ==
    LET y0 == tm.tm_year + 1900
        m == tm.tm_mon + 1
        y == IF m <= 2 THEN y0 - 1 ELSE y0
        era == y \div 400
        yoe == y - era * 400
        mp == IF m > 2 THEN m - 3 ELSE m + 9
        doy == (153 * mp + 2) \div 5 + tm.tm_mday - 1
        doe == yoe * 365 + yoe \div 4 - yoe \div 100 + doy
        days == era * 146097 + doe - 719468
    IN  days * 86400 + tm.tm_hour * 3600 + tm.tm_min * 60 + tm.tm_sec

\* t0 + (double)j / info->fs, where t0 is sec whole seconds plus usec
\* microseconds: whole seconds and a fraction in [0, 1)
SampleTime(sec, usec, j, fs) ==
    IF fs[1] <= 0 \/ fs[2] <= 0 THEN [s |-> sec, f |-> <<1, 0>>]
    ELSE LET num == usec * fs[1] + j * fs[2] * 1000000
             den == 1000000 * fs[1]
         IN  [s |-> sec + num \div den, f |-> Rat(num % den, den)]

\* a faulty TsIndex: the samples land one slot late
TsIndexOffByOne(nps, j) == nps + j + 1

\* the index of sample j of the block that starts at sample nps
TsIndex(nps, j) == nps + j

\* the sampling rate the time stamps are spaced by
TsRate(inf) == inf.fs

\* lines 54-93; get_day_indexing works on the day and window index arrays,
\* which are not part of this model
get_timestamps(nps, time, inf, ts, junk) ==
    LET msec == GN_DATE_MSEC(time, junk) * 1000
        tm0 == [tm_year |-> GN_DATE_YEAR(time, junk) - 1900,
                tm_mon |-> GN_DATE_MONTH(time, junk) - 1,
                tm_mday |-> GN_DATE_DAY(time, junk),
                tm_hour |-> GN_DATE_HOUR(time, junk),
                tm_min |-> GN_DATE_MIN(time, junk),
                tm_sec |-> GN_DATE_SEC(time, junk)]
        t0 == Timegm(tm0)
    IN  WriteAt(ts, TsIndex(nps, 0),
                [i \in 1..GN_SAMPLES |->
                    SampleTime(t0, msec, i - 1, TsRate(inf))])

(***************************************************************************)
(* geneactiv_read_block                                                     *)
(*                                                                          *)
(* A loop that stores into slots lo..hi of a buffer yields the stored        *)
(* values in lo..hi and the old ones elsewhere.  The files hold sequence    *)
(* numbers within the buffers.                                              *)
(***************************************************************************)
\* a faulty BlockStart: the sequence number is not scaled to samples
BlockStartUnscaled(N) == N

\* line 107
BlockStart(N) == N * GN_SAMPLES

\* lines 117-118
FillTemp(temp, nps, t) ==
    WriteAt(temp, nps, [i \in 1..GN_SAMPLES |-> t])

\* a faulty RateCheck: the first mismatch counts and warns, but the header
\* rate is left as it is
RateCheckKeepsRate(fs, inf) ==
    IF fs # inf.fs /\ inf.fs_err < 1
    THEN [fs |-> inf.fs, fs_err |-> inf.fs_err + 1,
          ier |-> GN_READ_E_BLOCK_FS_WARN, ret |-> FALSE]
    ELSE IF fs # inf.fs /\ inf.fs_err >= 1
    THEN [fs |-> inf.fs, fs_err |-> inf.fs_err,
          ier |-> GN_READ_E_NONE, ret |-> TRUE]
    ELSE [fs |-> inf.fs, fs_err |-> inf.fs_err,
          ier |-> GN_READ_E_NONE, ret |-> FALSE]

\* a faulty RateCheck: a later mismatch is let through
RateCheckNeverFatal(fs, inf) ==
    IF fs # inf.fs /\ inf.fs_err < 1
    THEN [fs |-> fs, fs_err |-> inf.fs_err + 1,
          ier |-> GN_READ_E_BLOCK_FS_WARN, ret |-> FALSE]
    ELSE [fs |-> inf.fs, fs_err |-> inf.fs_err,
          ier |-> GN_READ_E_NONE, ret |-> FALSE]

\* a faulty RateCheck: two mismatches are corrected before one is fatal
RateCheckTwoCorrections(fs, inf) ==
    IF fs # inf.fs /\ inf.fs_err < 2
    THEN [fs |-> fs, fs_err |-> inf.fs_err + 1,
          ier |-> GN_READ_E_BLOCK_FS_WARN, ret |-> FALSE]
    ELSE IF fs # inf.fs /\ inf.fs_err >= 2
    THEN [fs |-> inf.fs, fs_err |-> inf.fs_err,
          ier |-> GN_READ_E_NONE, ret |-> TRUE]
    ELSE [fs |-> inf.fs, fs_err |-> inf.fs_err,
          ier |-> GN_READ_E_NONE, ret |-> FALSE]

\* lines 123-133: the header rate, the mismatch counter, the signal kept
\* for the return, and whether the call returns GN_READ_E_BLOCK_FS here
RateCheck(fs, inf) ==
    IF fs # inf.fs /\ inf.fs_err < 1
    THEN [fs |-> fs, fs_err |-> inf.fs_err + 1,
          ier |-> GN_READ_E_BLOCK_FS_WARN, ret |-> FALSE]
    ELSE IF fs # inf.fs /\ inf.fs_err >= 1
    THEN [fs |-> inf.fs, fs_err |-> inf.fs_err,
          ier |-> GN_READ_E_NONE, ret |-> TRUE]
    ELSE [fs |-> inf.fs, fs_err |-> inf.fs_err,
          ier |-> GN_READ_E_NONE, ret |-> FALSE]

\* lines 148-149 and 154-155: memcpy(p, &data_str[i], 3) fills p[0..2] of
\* char p[4]; p[3] is never written, so strtol reads on through ptail, the
\* bytes that happen to lie there up to the first that is no hex digit
HexField(data_str, i, ptail) ==
    Strtol(SubSeq(data_str, i + 1, i + 3) \o ptail, 16)

\* line 150
Signed12(t) == IF t > 2047 THEN -4096 + t ELSE t

\* line 151
AccValue(t, off, gain) == Rat(Signed12(t) * 100 - off, gain)

\* line 156: (double)(t_ >> 2) * (info->lux / info->volts)
LightValue(t, lux, volts) == Rat((t \div 4) * lux, volts)

\* the acceleration slot of axis k of sample g of the block starting at nps
AccIndex(nps, g, k) == nps * 3 + g * 3 + k

\* lines 143-158
DecodeAcc(acc, nps, data_str, inf, ptail) ==
    WriteAt(acc, AccIndex(nps, 0, 0),
            [i \in 1..(3 * GN_SAMPLES) |->
                LET g == (i - 1) \div 3
                    k == (i - 1) % 3
                IN  AccValue(HexField(data_str, g * GROUP_CHARS + k * 3, ptail),
                             inf.offset[k + 1], inf.gain[k + 1])])

DecodeLight(light, nps, data_str, inf, ptail) ==
    WriteAt(light, nps,
            [i \in 1..GN_SAMPLES |->
                LightValue(HexField(data_str, (i - 1) * GROUP_CHARS + 9, ptail),
                           inf.lux, inf.volts)])

\* line 98-101: the locals of a call.  ptail and junk are what the reads of
\* uninitialized memory yield in this call; ret is the code of the return
\* statement reached, "" while the call runs.
BlockFrame(f, inf, dat, ptail, junk) ==
    [st |-> [f |-> f, buff |-> <<>>], info |-> inf, data |-> dat,
     ptail |-> ptail, junk |-> junk, N |-> 0, Nps |-> 0, time |-> <<>>,
     data_str |-> <<>>, ier |-> GN_READ_E_NONE, ret |-> ""]

Return(c, code) == [c EXCEPT !.ret = code]

\* lines 103-108
ReadSequence(c) ==
    LET Got(st) ==
            LET N == StrtolAt(st.buff, 16, 10, c.junk)
            IN  [c EXCEPT !.st = st, !.N = N, !.Nps = BlockStart(N),
                          !.info.max_n = IF N > @ THEN N ELSE @]
    IN  Got(Readlines(c.st, 3))

\* lines 110-112
ReadTime(c) ==
    LET Got(r) ==
            IF r.ok THEN [c EXCEPT !.st.f = r.f, !.time = r.dst]
            ELSE Return([c EXCEPT !.st.f = r.f], GN_READ_E_BLOCK_TIMESTAMP)
    IN  IF c.ret # "" THEN c ELSE Got(Fgets(c.time, TIME_LEN, c.st.f))

\* lines 114-118
ReadTemperature(c) ==
    LET Got(st) ==
            [c EXCEPT !.st = st,
                      !.data.temp = FillTemp(@, c.Nps,
                                             StrtodAt(st.buff, 12, c.junk))]
    IN  IF c.ret # "" THEN c ELSE Got(Readlines(c.st, 2))

\* lines 120-133
ReadRate(c) ==
    LET Checked(st, chk) ==
            [c EXCEPT !.st = st, !.info.fs = chk.fs,
                      !.info.fs_err = chk.fs_err, !.ier = chk.ier,
                      !.ret = IF chk.ret THEN GN_READ_E_BLOCK_FS ELSE ""]
        Got(st) == Checked(st, RateCheck(StrtodAt(st.buff, 22, c.junk), c.info))
    IN  IF c.ret # "" THEN c ELSE Got(Readlines(c.st, 3))

\* lines 135-140
ReadData(c) ==
    LET Got(r) ==
            IF ~r.ok THEN Return([c EXCEPT !.st.f = r.f], GN_READ_E_BLOCK_DATA)
            ELSE IF Len(r.s) < DATA_MIN_STRLEN
            THEN Return([c EXCEPT !.st.f = r.f], GN_READ_E_BLOCK_DATA_3600)
            ELSE [c EXCEPT !.st.f = r.f, !.data_str = r.s]
    IN  IF c.ret # "" THEN c ELSE Got(Fgets(c.data_str, DATA_STR_LEN, c.st.f))

\* lines 142-158
DecodeSamples(c) ==
    IF c.ret # "" THEN c
    ELSE [c EXCEPT
            !.data.acc = DecodeAcc(@, c.Nps, c.data_str, c.info, c.ptail),
            !.data.light = DecodeLight(@, c.Nps, c.data_str, c.info, c.ptail)]

\* lines 160-162
StampSamples(c) ==
    IF c.ret # "" THEN c
    ELSE [c EXCEPT !.data.ts = get_timestamps(c.Nps, c.time, c.info, @, c.junk),
                   !.ret = c.ier]

BlockResult(c) == [f |-> c.st.f, info |-> c.info, data |-> c.data, rc |-> c.ret]

\* lines 96-163
geneactiv_read_block(f, inf, dat, ptail, junk) ==
    BlockResult(StampSamples(DecodeSamples(ReadData(ReadRate(
        ReadTemperature(ReadTime(ReadSequence(
            BlockFrame(f, inf, dat, ptail, junk)))))))))

(***************************************************************************)
(* parseline and geneactiv_read_header                                      *)
(***************************************************************************)
RECURSIVE FirstNotColon(_, _)
\* the least index >= i of str that holds no ':', or Len(str) + 1
FirstNotColon(str, i) ==
    IF i > Len(str) \/ str[i] # ":" THEN i ELSE FirstNotColon(str, i + 1)

RECURSIVE FirstColon(_, _)
FirstColon(str, i) ==
    IF i > Len(str) \/ str[i] = ":" THEN i ELSE FirstColon(str, i + 1)

StrVal(str) == [kind |-> "str", s |-> str]
NullVal == [kind |-> "null", s |-> <<>>]
IndetVal == [kind |-> "indet", s |-> <<>>]

\* the tokens of the string str held at the start of buff
Tokens(buff, str) ==
    LET L == Len(str)
        i == FirstNotColon(str, 1)
        j == FirstColon(str, i)
        k == FirstNotColon(str, j + 1)
        m == FirstColon(str, k)
    IN  IF i > L \/ j > L THEN [buff |-> buff, v |-> NullVal]
        ELSE IF k > L THEN [buff |-> [buff EXCEPT ![j] = NUL], v |-> NullVal]
        ELSE IF m > L THEN [buff |-> [buff EXCEPT ![j] = NUL],
                            v |-> StrVal(SubSeq(str, k, L))]
        ELSE [buff |-> [buff EXCEPT ![j] = NUL, ![m] = NUL],
              v |-> StrVal(SubSeq(str, k, m - 1))]

\* lines 6-7, strtok(buff, ":") then strtok(NULL, ":"): the array with the
\* token ends overwritten by NUL, and the second token (NULL when there is
\* none)
Strtok2(buff) ==
    IF ~CStrAt(buff, 0).ok THEN [buff |-> buff, v |-> IndetVal]
    ELSE Tokens(buff, CStrAt(buff, 0).s)

\* lines 3-8: the result of fgets is not looked at
parseline(st) ==
    LET Got(r, t) == [f |-> r.f, buff |-> t.buff, v |-> t.v]
        Read(r) == Got(r, Strtok2(r.buff))
    IN  Read(GN_READLINE(st))

\* (double)strtol(v, NULL, 10); v is not checked
StrtolVal(v, junk) == IF v.kind = "str" THEN Strtol(v.s, 10) ELSE junk

SIGSEGV == "SIGSEGV"

\* lines 12-13: the locals of a call.  junk is what a read of uninitialized
\* memory yields in this call; null tells whether strtol was handed NULL.
HeaderFrame(f, inf, junk) ==
    [st |-> [f |-> f, buff |-> <<>>], info |-> inf, junk |-> junk,
     null |-> FALSE]

\* lines 15-17, 23-25, 48
SkipLines(h, k) == [h EXCEPT !.st = Readlines(@, k)]

\* lines 19-21
ParseFs(h) ==
    LET Got(p) ==
            [h EXCEPT !.st = [f |-> p.f, buff |-> p.buff],
                      !.info.fs = <<StrtolVal(p.v, h.junk), 1>>,
                      !.null = @ \/ p.v.kind = "null"]
    IN  Got(parseline(h.st))

\* lines 30-31
ParseGain(h, j) ==
    LET Got(p) ==
            [h EXCEPT !.st = [f |-> p.f, buff |-> p.buff],
                      !.info.gain[j] = StrtolVal(p.v, h.junk),
                      !.null = @ \/ p.v.kind = "null"]
    IN  Got(parseline(h.st))

\* lines 32-33
ParseOffset(h, j) ==
    LET Got(p) ==
            [h EXCEPT !.st = [f |-> p.f, buff |-> p.buff],
                      !.info.offset[j] = StrtolVal(p.v, h.junk),
                      !.null = @ \/ p.v.kind = "null"]
    IN  Got(parseline(h.st))

RECURSIVE ParseAxes(_, _)
\* lines 27-34: the axes j..3 (the code counts them from 0)
ParseAxes(h, j) ==
    IF j > 3 THEN h ELSE ParseAxes(ParseOffset(ParseGain(h, j), j), j + 1)

\* lines 36-38
ReadVolts(h) ==
    LET Got(st) ==
            [h EXCEPT !.st = st,
                      !.info.volts = StrtolAt(st.buff, 6, 10, h.junk)]
    IN  Got(GN_READLINE(h.st))

\* lines 39-40
ReadLux(h) ==
    LET Got(st) ==
            [h EXCEPT !.st = st, !.info.lux = StrtolAt(st.buff, 4, 10, h.junk)]
    IN  Got(GN_READLINE(h.st))

\* lines 42-46
ReadNPages(h) ==
    LET Got(st) ==
            [h EXCEPT !.st = st,
                      !.info.npages = StrtolAt(st.buff, 16, 10, h.junk)]
    IN  Got(Readlines(h.st, 3))

\* line 50, or the end of the process where strtol(NULL, ...) faults
HeaderResult(h, f, inf, segv) ==
    IF segv /\ h.null THEN [f |-> f, info |-> inf, rc |-> SIGSEGV]
    ELSE [f |-> h.st.f, info |-> h.info, rc |-> GN_READ_E_NONE]

\* lines 10-51.  segv tells whether strtol(NULL, ...) ends the process or
\* reads on.
geneactiv_read_header(f, inf, junk, segv) ==
    HeaderResult(
        SkipLines(ReadNPages(ReadLux(ReadVolts(ParseAxes(
            SkipLines(ParseFs(SkipLines(HeaderFrame(f, inf, junk), 19)), 27),
            1)))), 1),
        f, inf, segv)

(***************************************************************************)
(* The files the reader is run on.                                          *)
(***************************************************************************)
Pad(n) == [i \in 1..n |-> "x"]

\* a "label:value" line whose value starts at column lablen + 1
KV(lablen, val) == TextLine(Pad(lablen) \o <<":">> \o val \o <<"\n">>)
Filler == TextLine(<<"k", ":", "v", "\n">>)
Plain == TextLine(Pad(13) \o <<"\n">>)

RECURSIVE Dec(_)
\* the decimal digits of a natural number
Dec(n) == IF n < 10 THEN <<HexDigits[n + 1]>>
          ELSE Dec(n \div 10) \o <<HexDigits[(n % 10) + 1]>>

\* a header: the text of each numeric field
GoodHeader ==
    [fs |-> <<"1", "0", "0">>,
     gain |-> << <<"2", "5", "6">>, <<"2", "5", "0">>, <<"2", "6", "0">> >>,
     offset |-> << <<"-", "1", "2">>, <<"0">>, <<"3", "0">> >>,
     volts |-> <<"3", "0", "0">>,
     lux |-> <<"8", "0", "0">>,
     npages |-> Dec(NPages)]

\* the 59 lines of a header
HeaderLines(h) ==
    [i \in 1..59 |->
        CASE i = 20 -> KV(21, h.fs \o <<" ", "H", "z">>)
          [] i \in {48, 50, 52} -> KV(6, h.gain[(i - 46) \div 2])
          [] i \in {49, 51, 53} -> KV(8, h.offset[(i - 47) \div 2])
          [] i = 54 -> KV(5, h.volts)
          [] i = 55 -> KV(3, h.lux)
          [] i = 58 -> KV(15, h.npages)
          [] OTHER -> IF i % 5 = 0 THEN Plain ELSE Filler]

\* clock stamps, with the time each denotes: seconds since the epoch and
\* milliseconds
Stamps ==
    << [txt |-> <<"2", "0", "2", "0", "-", "0", "2", "-", "2", "9", " ",
                  "2", "3", ":", "5", "9", ":", "5", "9", ":", "5", "0", "0">>,
        epoch |-> 1583020799, ms |-> 500],
       [txt |-> <<"2", "0", "2", "0", "-", "0", "3", "-", "0", "1", " ",
                  "0", "0", ":", "0", "0", ":", "0", "2", ":", "0", "0", "0">>,
        epoch |-> 1583020802, ms |-> 0],
       [txt |-> <<"2", "0", "2", "1", "-", "1", "2", "-", "3", "1", " ",
                  "2", "3", ":", "5", "9", ":", "5", "7", ":", "2", "5", "0">>,
        epoch |-> 1640995197, ms |-> 250],
       [txt |-> <<"1", "9", "9", "9", "-", "0", "1", "-", "0", "1", " ",
                  "0", "0", ":", "0", "0", ":", "0", "0", ":", "0", "4", "0">>,
        epoch |-> 915148800, ms |-> 40],
       [txt |-> <<"2", "0", "2", "4", "-", "0", "7", "-", "1", "5", " ",
                  "1", "2", ":", "3", "0", ":", "4", "5", ":", "9", "9", "9">>,
        epoch |-> 1721046645, ms |-> 999] >>

\* temperatures, with the value each denotes
Temps ==
    << [txt |-> <<"2", "1", ".", "5">>, val |-> <<43, 2>>],
       [txt |-> <<"-", "3", ".", "2", "5">>, val |-> <<-13, 4>>],
       [txt |-> <<"3", "0">>, val |-> <<30, 1>>] >>

\* sampling rates, with the value each denotes
Rates ==
    { [txt |-> <<"1", "0", "0", ".", "0">>, val |-> <<100, 1>>],
      [txt |-> <<"5", "0">>, val |-> <<50, 1>>] }

\* a third rate, which only the block with the last sequence number declares
LateRates == { [txt |-> <<"2", "5">>, val |-> <<25, 1>>] }
RatesOf(n) == IF n = NPages - 1 THEN Rates \cup LateRates ELSE Rates

\* what the block with sequence number n holds
StampOf(n) == Stamps[(n % Len(Stamps)) + 1]
TempOf(n) == Temps[(n % Len(Temps)) + 1]
DataOf(n) == IF n % 2 = 0 THEN "bnd" ELSE "zero"

\* the lines of block b; b.cut of its ten lines are in the file
BlockLines(b) ==
    SubSeq(<< Plain, Filler, KV(15, Dec(b.n)), KV(9, StampOf(b.n).txt),
              Filler, KV(11, TempOf(b.n).txt), Filler, Filler,
              KV(21, b.rate.txt), DataLine(b.d) >>, 1, b.cut)

Cuts == {2, 3, 5, 8, 9}

CompleteBlocks(n) ==
    {[n |-> n, rate |-> r, cut |-> 10, d |-> DataOf(n)] : r \in RatesOf(n)}

\* a last block the file ends in, or whose data line is too short
TailBlocks(n) ==
    {[n |-> n, rate |-> r, cut |-> c, d |-> DataOf(n)] :
        r \in RatesOf(n), c \in Cuts}
    \cup {[n |-> n, rate |-> r, cut |-> 10, d |-> "short"] : r \in RatesOf(n)}

RECURSIVE BlockLists(_)
\* the block lists with increasing sequence numbers in lo..NPages-1, only
\* the last block possibly cut
BlockLists(lo) ==
    {<<>>}
    \cup UNION {{<<b>> \o rest : b \in CompleteBlocks(n), rest \in BlockLists(n + 1)}
                : n \in lo..(NPages - 1)}
    \cup UNION {{<<b>> : b \in TailBlocks(n)} : n \in lo..(NPages - 1)}

RECURSIVE Concat(_)
Concat(ss) == IF ss = <<>> THEN <<>> ELSE Head(ss) \o Concat(Tail(ss))

FileLines(h, blocks) ==
    HeaderLines(h) \o Concat([i \in 1..Len(blocks) |-> BlockLines(blocks[i])])

\* field texts that hold no number
BadTexts == {<<>>, <<"a", "b", "c">>}

\* the headers with one numeric field that holds no number
BadHeaders ==
    {[GoodHeader EXCEPT !.fs = t] : t \in BadTexts}
    \cup {[GoodHeader EXCEPT !.gain[k] = t] : k \in 1..3, t \in BadTexts}
    \cup {[GoodHeader EXCEPT !.offset[k] = t] : k \in 1..3, t \in BadTexts}
    \cup {[GoodHeader EXCEPT !.volts = t] : t \in BadTexts}
    \cup {[GoodHeader EXCEPT !.lux = t] : t \in BadTexts}
    \cup {[GoodHeader EXCEPT !.npages = t] : t \in BadTexts}

\* the files: a good header and blocks; a header with a bad field; a
\* header the file ends in
Files ==
    {FileLines(GoodHeader, blocks) : blocks \in BlockLists(0)}
    \cup {HeaderLines(h) : h \in BadHeaders}
    \cup {SubSeq(HeaderLines(GoodHeader), 1, k) : k \in 0..58}

(***************************************************************************)
(* The file reader.                                                         *)
(***************************************************************************)
\* the sample buffers the caller sizes from the declared page count
AllocBuffers(npages) ==
    [ts |-> [i \in 1..(npages * GN_SAMPLES) |-> [s |-> 0, f |-> <<0, 1>>]],
     acc |-> [i \in 1..(npages * GN_SAMPLES * 3) |-> <<0, 1>>],
     light |-> [i \in 1..(npages * GN_SAMPLES) |-> <<0, 1>>],
     temp |-> [i \in 1..(npages * GN_SAMPLES) |-> <<0, 1>>]]

InitInfo ==
    [fs |-> <<0, 1>>, gain |-> <<0, 0, 0>>, offset |-> <<0, 0, 0>>,
     volts |-> 0, lux |-> 0, npages |-> 0, max_n |-> 0, fs_err |-> 0]

\* what the stack holds where a call reads memory it never wrote: zero
\* bytes, or left-over bytes.  junk is the number a conversion of such
\* memory yields, ptail the hex digits found right after p[2].
Uninit == {[junk |-> 0, ptail |-> <<>>], [junk |-> 7, ptail |-> <<"f">>]}

InitWith(lines) ==
    /\ fp = [lines |-> lines, pos |-> 1, off |-> 0]
    /\ info = InitInfo
    /\ data = AllocBuffers(0)
    /\ pc = "start"
    /\ rc = GN_READ_E_NONE
    /\ hist = <<>>

Init == \E lines \in Files : InitWith(lines)

ReadHeader ==
    /\ pc = "start"
    /\ \E mem \in Uninit, segv \in BOOLEAN :
          \E r \in {geneactiv_read_header(fp, info, mem.junk, segv)} :
              /\ fp' = r.f
              /\ info' = r.info
              /\ rc' = r.rc
              /\ pc' = IF r.rc = GN_READ_E_NONE THEN "blocks" ELSE "crashed"
              /\ data' = IF r.rc = GN_READ_E_NONE
                         THEN AllocBuffers(r.info.npages) ELSE data
    /\ UNCHANGED hist

ReadBlock ==
    /\ pc = "blocks"
    /\ Len(hist) < info.npages
    /\ \E mem \in Uninit :
          \E r \in {geneactiv_read_block(fp, info, data, mem.ptail, mem.junk)} :
              /\ fp' = r.f
              /\ info' = r.info
              /\ data' = r.data
              /\ rc' = r.rc
              /\ pc' = IF r.rc \in FatalCodes THEN "fatal" ELSE "blocks"
              /\ hist' = Append(hist, [pos |-> fp.pos, rc |-> r.rc,
                                       fs0 |-> info.fs, fs |-> r.info.fs])

Next == ReadHeader \/ ReadBlock

Spec == Init /\ [][Next]_vars

(***************************************************************************)
(* The file as written, read off its lines without the reader: what the     *)
(* block that starts at line pos declares.                                  *)
(***************************************************************************)
HasLine(lines, pos, k) == pos + k - 1 <= Len(lines)

\* the sequence number on the third line of the block
SeqOf(lines, pos) ==
    CHOOSE n \in 0..(NPages - 1) : lines[pos + 2] = KV(15, Dec(n))

\* the sampling rate on the ninth line of the block
RateOf(lines, pos) ==
    (CHOOSE r \in Rates \cup LateRates : lines[pos + 8] = KV(21, r.txt)).val

\* the tenth line of the block is there and holds 3600 characters
FullData(lines, pos) ==
    HasLine(lines, pos, 10) /\ lines[pos + 9].d \in {"bnd", "zero"}

\* the value of the three hex digits of txt that follow its first i characters
Hex3(txt, i) ==
    DigitMap[txt[i + 1]] * 256 + DigitMap[txt[i + 2]] * 16 + DigitMap[txt[i + 3]]

\* the slots lo..lo+n-1 of an array
Slots(arr, lo, n) == SubSeq(arr, lo + 1, lo + n)

\* the arrays a2 and a1 differ in the slots lo..lo+n-1 only
OnlySlots(a2, a1, lo, n) ==
    /\ Len(a2) = Len(a1)
    /\ SubSeq(a2, 1, lo) = SubSeq(a1, 1, lo)
    /\ SubSeq(a2, lo + n + 1, Len(a2)) = SubSeq(a1, lo + n + 1, Len(a1))

\* the buffers d2 hold in the slots of block n what the buffers d1 hold
Same(d2, d1, n) ==
    /\ Slots(d2.ts, n * 300, 300) = Slots(d1.ts, n * 300, 300)
    /\ Slots(d2.light, n * 300, 300) = Slots(d1.light, n * 300, 300)
    /\ Slots(d2.temp, n * 300, 300) = Slots(d1.temp, n * 300, 300)
    /\ Slots(d2.acc, n * 900, 900) = Slots(d1.acc, n * 900, 900)

\* the buffers d2 differ from the buffers d1 in slots of block n only
OnlyFrame(d2, d1, n) ==
    /\ OnlySlots(d2.ts, d1.ts, n * 300, 300)
    /\ OnlySlots(d2.light, d1.light, n * 300, 300)
    /\ OnlySlots(d2.temp, d1.temp, n * 300, 300)
    /\ OnlySlots(d2.acc, d1.acc, n * 900, 900)

\* the temperature slots of block n in d hold the temperature of block n
TempFilled(d, n) ==
    Slots(d.temp, n * 300, 300) = [j \in 1..300 |-> TempOf(n).val]

\* clock stamp st plus j samples at the rate fs: whole seconds and a fraction
ExpectedTs(st, j, fs) ==
    LET num == st.ms * fs[1] + 1000 * j * fs[2]
        den == 1000 * fs[1]
    IN  [s |-> st.epoch + num \div den, f |-> Rat(num % den, den)]

\* the slots of block n in d hold its clock stamp spaced by the rate fs
StampedWith(d, n, fs) ==
    \A j \in 0..299 : At(d.ts, n * 300 + j) = ExpectedTs(StampOf(n), j, fs)

\* the step is a call of geneactiv_read_block
CallStep == pc = "blocks" /\ Len(hist') = Len(hist) + 1

\* the calls made so far that were not fatal
Decoded == {i \in 1..Len(hist) : hist[i].rc \notin FatalCodes}

\* the block of the call the step makes declares a rate that is not the
\* header's, the mismatch counter being at least lo and at most hi
Mismatch(lo, hi) ==
    /\ CallStep
    /\ HasLine(fp.lines, fp.pos, 9)
    /\ RateOf(fp.lines, fp.pos) # info.fs
    /\ info.fs_err >= lo /\ info.fs_err <= hi

\* the call of the step set the counter to 1, took the block's rate, gave
\* the warning and decoded the block under the new rate
Corrected ==
    /\ info'.fs_err = 1
    /\ info'.fs = RateOf(fp.lines, fp.pos)
    /\ rc' = GN_READ_E_BLOCK_FS_WARN
    /\ pc' = "blocks"
    /\ StampedWith(data', SeqOf(fp.lines, fp.pos), RateOf(fp.lines, fp.pos))
    /\ TempFilled(data', SeqOf(fp.lines, fp.pos))
    /\ At(data'.acc, SeqOf(fp.lines, fp.pos) * 900)
          # At(data.acc, SeqOf(fp.lines, fp.pos) * 900)

C3_OneCorrection ==
    [][/\ info'.fs_err >= info.fs_err
       /\ info'.fs_err \in {0, 1}
       /\ Cardinality({i \in 1..Len(hist') : hist'[i].fs # hist'[i].fs0}) <= 1
       /\ (CallStep /\ info'.fs # info.fs => info.fs_err = 0 /\ info'.fs_err = 1)]_vars

\* C3: the first call corrected the rate and two more calls followed
C3_Witness ==
    /\ Len(hist) = 3
    /\ hist[1].fs # hist[1].fs0
    /\ info.fs_err = 1
    /\ info.fs = hist[1].fs

(***************************************************************************)
(* C4                                                                       *)
(***************************************************************************)
\* C4: when the data line of a block is absent or shorter than 3600
\* characters (its rate matching the header's), the call returns
\* GN_READ_E_BLOCK_DATA or GN_READ_E_BLOCK_DATA_3600 and no slot of the
\* timestamp, acceleration, light or temperature buffers in the block's
\* range is modified.
C4_TruncatedWritesNothing ==
    [][(/\ CallStep
        /\ HasLine(fp.lines, fp.pos, 9)
        /\ ~FullData(fp.lines, fp.pos)
        /\ RateOf(fp.lines, fp.pos) = info.fs)
       => /\ rc' \in {GN_READ_E_BLOCK_DATA, GN_READ_E_BLOCK_DATA_3600}
          /\ Same(data', data, SeqOf(fp.lines, fp.pos))]_vars

HasNumber(t) ==
    \/ t # <<>> /\ DigitVal(t[1], 10) >= 0
    \/ Len(t) >= 2 /\ t[1] \in {"-", "+"} /\ DigitVal(t[2], 10) >= 0

\* the header lines that hold a numeric field, with the column it starts at
NumericFields ==
    {<<20, 23>>, <<48, 8>>, <<49, 10>>, <<50, 8>>, <<51, 10>>, <<52, 8>>,
     <<53, 10>>, <<54, 7>>, <<55, 5>>, <<58, 17>>}

\* the file holds 59 header lines whose numeric fields hold numbers
WellFormedHeader(lines) ==
    /\ Len(lines) >= 59
    /\ \A fld \in NumericFields :
          HasNumber(SubSeq(lines[fld[1]].s, fld[2], Len(lines[fld[1]].s)))

\* C6: geneactiv_read_header does not return success when the stream ends
\* before 59 lines are consumed or a numeric field holds no number.
C6_MalformedHeaderFails ==
    (pc # "start" /\ hist = <<>> /\ ~WellFormedHeader(fp.lines))
        => rc # GN_READ_E_NONE

(***************************************************************************)
(* C7                                                                       *)
(***************************************************************************)
\* the 12-bit two's-complement reading of raw
TwosComplement(raw) == IF raw <= 2047 THEN raw ELSE raw - 4096

\* C7: in every decoded block each acceleration field with unsigned value
\* raw is calibrated from raw when raw <= 2047 and from raw - 4096 when
\* raw > 2047, a value in -2048..2047.
C7_AccTwosComplement ==
    \A i \in Decoded :
        \A g \in 0..299, k \in 0..2 :
            LET n == SeqOf(fp.lines, hist[i].pos)
                raw == Hex3(DataText(fp.lines[hist[i].pos + 9].d), 12 * g + 3 * k)
            IN  /\ TwosComplement(raw) \in -2048..2047
                /\ At(data.acc, n * 900 + 3 * g + k)
                      = Rat(TwosComplement(raw) * 100 - info.offset[k + 1],
                            info.gain[k + 1])

(***************************************************************************)
(* C8                                                                       *)
(***************************************************************************)
\* C8: in every decoded block the light field with unsigned value raw gives
\* floor(raw / 4), a value in 0..1023, times lux / volts, so 0 for a field
\* of zeros.
C8_LightShift ==
    \A i \in Decoded :
        \A g \in 0..299 :
            LET n == SeqOf(fp.lines, hist[i].pos)
                raw == Hex3(DataText(fp.lines[hist[i].pos + 9].d), 12 * g + 9)
            IN  /\ raw \div 4 \in 0..1023
                /\ At(data.light, n * 300 + g)
                      = Rat((raw \div 4) * info.lux, info.volts)

(***************************************************************************)
(* C9                                                                       *)
(***************************************************************************)
\* b - a for two timestamps, as a fraction
TsDiff(b, a) ==
    Rat((b.s - a.s) * a.f[2] * b.f[2] + b.f[1] * a.f[2] - a.f[1] * b.f[2],
        a.f[2] * b.f[2])

\* C9: for every decoded block with sequence number N and every j in 0..299,
\* ts[300N + j] is the epoch time of the block's clock stamp plus j over the
\* header rate in force when the block's call returned; within the block the
\* timestamps increase by 1 / rate from one to the next.
C9_Timestamps ==
    \A i \in Decoded :
        LET n == SeqOf(fp.lines, hist[i].pos)
        IN  /\ StampedWith(data, n, hist[i].fs)
            /\ \A j \in 0..298 :
                  TsDiff(At(data.ts, n * 300 + j + 1), At(data.ts, n * 300 + j))
                      = Rat(hist[i].fs[2], hist[i].fs[1])

\* C9: two blocks in a row are decoded at the header's rate, the second
\* under a clock stamp that lies before the end of the first
C9_Witness ==
    /\ Len(hist) >= 2
    /\ Decoded = 1..Len(hist)
    /\ \A i \in Decoded : hist[i].rc = GN_READ_E_NONE
    /\ SeqOf(fp.lines, hist[1].pos) = 0 /\ SeqOf(fp.lines, hist[2].pos) = 1
    /\ At(data.ts, 299) = [s |-> 1583020802, f |-> <<49, 100>>]
    /\ At(data.ts, 300) = [s |-> 1583020802, f |-> <<0, 1>>]

(***************************************************************************)
(* C10                                                                      *)
(***************************************************************************)
\* C10: a call that changes the header rate or raises fs_err returns
\* GN_READ_E_BLOCK_FS_WARN, and a call that returns a fatal error leaves
\* the header rate and fs_err as they were.
C10_CorrectionReported ==
    [][CallStep =>
          /\ (info'.fs # info.fs \/ info'.fs_err > info.fs_err)
                => rc' = GN_READ_E_BLOCK_FS_WARN
          /\ rc' \in FatalCodes
                => info'.fs = info.fs /\ info'.fs_err = info.fs_err]_vars

====
